---- MODULE Spec2Model ----
(***************************************************************************)
(* A model of package rafthttp (src/http/http.go): the HTTP transport of   *)
(* a raft server.  HTTPPeer is the client half (identity resolution and    *)
(* the three outbound RPCs), HTTPServer the server half (four routes over  *)
(* a raft.Server).  Message bodies are byte sequences; a byte is a         *)
(* one-character string.  The JSON codec of encoding/json, fmt.Sprint,     *)
(* http.Error and Go's channels are modelled by what they do to those      *)
(* bytes, as far as http.go uses them.                                     *)
(***************************************************************************)
EXTENDS Integers, Sequences, FiniteSets, TLC

\* ------------------------------------------------------------------ bounds

\* Largest engine identity the model enumerates.
MaxId == 12
\* Largest term in a consensus request or reply.
MaxTerm == 5
\* Values the engine may send on one reply channel.
MaxSends == 2
\* Receives the reader of a caller's reply channel may start.
MaxRecv == 2

\* --------------------------------------------------------- route constants

IdPath == "/raft/id"
AppendEntriesPath == "/raft/appendentries"
RequestVotePath == "/raft/requestvote"
CommandPath == "/raft/command"

StatusOK == 200
StatusBadRequest == 400
StatusInternalServerError == 500

\* The largest uint64, 18446744073709551615, as its decimal digits.
MaxUint64Digits ==
    <<"1", "8", "4", "4", "6", "7", "4", "4", "0", "7",
      "3", "7", "0", "9", "5", "5", "1", "6", "1", "5">>

\* ------------------------------------------------------------------- bytes

Digit == {"0", "1", "2", "3", "4", "5", "6", "7", "8", "9"}
DigitSeq == <<"0", "1", "2", "3", "4", "5", "6", "7", "8", "9">>
WS == {" ", "\n"}

DigitVal(c) == CHOOSE d \in 0..9 : DigitSeq[d + 1] = c

\* The byte at position i, or "EOF" past the end.
At(b, i) == IF i >= 1 /\ i <= Len(b) THEN b[i] ELSE "EOF"

HasLit(b, i, lit) ==
    /\ i + Len(lit) - 1 <= Len(b)
    /\ SubSeq(b, i, i + Len(lit) - 1) = lit

\* strconv's decimal rendering of an unsigned integer (fmt.Sprint of a uint64).
RECURSIVE FormatUint(_)
FormatUint(n) ==
    IF n < 10 THEN <<DigitSeq[n + 1]>>
    ELSE FormatUint(n \div 10) \o <<DigitSeq[(n % 10) + 1]>>

\* Whether the decimal digits ds (no leading zero) are at most ms.
RECURSIVE DigitsLeq(_, _)
DigitsLeq(ds, ms) ==
    CASE Len(ds) # Len(ms) -> Len(ds) < Len(ms)
      [] ds = <<>> -> TRUE
      [] Head(ds) # Head(ms) -> DigitVal(Head(ds)) < DigitVal(Head(ms))
      [] OTHER -> DigitsLeq(Tail(ds), Tail(ms))

\* -------------------------------------------------------- JSON: the scanner
\* encoding/json's scanner over the bytes the model draws bodies from:
\* whitespace, null/true/false, integers, strings without escapes, objects
\* and arrays.  A scan yields [ok, end, v]: whether a value was scanned, the
\* position after it, and the value.

JV(t, neg, n, bv, s, m) == [t |-> t, neg |-> neg, n |-> n, bv |-> bv, s |-> s, m |-> m]
JNull == JV("null", FALSE, 0, FALSE, <<>>, <<>>)
JBool(x) == JV("bool", FALSE, 0, x, <<>>, <<>>)
\* A number keeps its digits in s.
JNum(neg, n, ds) == JV("num", neg, n, FALSE, ds, <<>>)
JStr(s) == JV("str", FALSE, 0, FALSE, s, <<>>)
JObj(m) == JV("obj", FALSE, 0, FALSE, <<>>, m)
JArr(m) == JV("arr", FALSE, 0, FALSE, <<>>, m)

ScanFail == [ok |-> FALSE, end |-> 0, v |-> JNull]
ScanOk(e, v) == [ok |-> TRUE, end |-> e, v |-> v]

RECURSIVE SkipWS(_, _)
SkipWS(b, i) == IF At(b, i) \in WS THEN SkipWS(b, i + 1) ELSE i

RECURSIVE DigitsEnd(_, _)
DigitsEnd(b, i) == IF At(b, i) \in Digit THEN DigitsEnd(b, i + 1) ELSE i

\* A number that starts with 0 ends after it (no leading zeros).
NumEnd(b, i) == IF At(b, i) = "0" THEN i + 1 ELSE DigitsEnd(b, i)

\* The value of the digits b[i..j-1].
RECURSIVE DigitsVal(_, _, _)
DigitsVal(b, i, j) ==
    IF j <= i THEN 0 ELSE DigitsVal(b, i, j - 1) * 10 + DigitVal(b[j - 1])

\* The position of the quote that closes a string whose first byte is b[i],
\* or 0: the input ends first, or holds a control character.
RECURSIVE StrEnd(_, _)
StrEnd(b, i) ==
    CASE At(b, i) = "\"" -> i
      [] At(b, i) \in {"EOF", "\n"} -> 0
      [] OTHER -> StrEnd(b, i + 1)

RECURSIVE ScanValue(_, _), ScanMembers(_, _, _), ScanElems(_, _, _)
ScanValue(b, i) ==
    LET c == At(b, i) IN
    CASE c = "n" -> IF HasLit(b, i, <<"n", "u", "l", "l">>)
                    THEN ScanOk(i + 4, JNull) ELSE ScanFail
      [] c = "t" -> IF HasLit(b, i, <<"t", "r", "u", "e">>)
                    THEN ScanOk(i + 4, JBool(TRUE)) ELSE ScanFail
      [] c = "f" -> IF HasLit(b, i, <<"f", "a", "l", "s", "e">>)
                    THEN ScanOk(i + 5, JBool(FALSE)) ELSE ScanFail
      [] c \in Digit -> LET j == NumEnd(b, i)
                        IN ScanOk(j, JNum(FALSE, DigitsVal(b, i, j),
                                              SubSeq(b, i, j - 1)))
      [] c = "-" -> IF At(b, i + 1) \in Digit
                    THEN LET j == NumEnd(b, i + 1)
                         IN ScanOk(j, JNum(TRUE, DigitsVal(b, i + 1, j),
                                               SubSeq(b, i + 1, j - 1)))
                    ELSE ScanFail
      [] c = "\"" -> LET j == StrEnd(b, i + 1)
                     IN IF j = 0 THEN ScanFail
                        ELSE ScanOk(j + 1, JStr(SubSeq(b, i + 1, j - 1)))
      [] c = "{" -> LET k == SkipWS(b, i + 1)
                    IN IF At(b, k) = "}" THEN ScanOk(k + 1, JObj(<<>>))
                       ELSE ScanMembers(b, k, <<>>)
      [] c = "[" -> LET k == SkipWS(b, i + 1)
                    IN IF At(b, k) = "]" THEN ScanOk(k + 1, JArr(<<>>))
                       ELSE ScanElems(b, k, <<>>)
      [] OTHER -> ScanFail

\* The members of an object, from the key at b[i] on.
ScanMembers(b, i, acc) ==
    LET j == StrEnd(b, i + 1)
        k == SkipWS(b, j + 1)
        r == ScanValue(b, SkipWS(b, k + 1))
        e == SkipWS(b, r.end)
        acc2 == Append(acc, [key |-> SubSeq(b, i + 1, j - 1), val |-> r.v])
    IN IF At(b, i) # "\"" \/ j = 0 THEN ScanFail
       ELSE IF At(b, k) # ":" THEN ScanFail
       ELSE IF ~r.ok THEN ScanFail
       ELSE CASE At(b, e) = "}" -> ScanOk(e + 1, JObj(acc2))
              [] At(b, e) = "," -> ScanMembers(b, SkipWS(b, e + 1), acc2)
              [] OTHER -> ScanFail

\* The elements of an array, from the value at b[i] on.
ScanElems(b, i, acc) ==
    LET r == ScanValue(b, i)
        e == SkipWS(b, r.end)
        acc2 == Append(acc, [key |-> <<>>, val |-> r.v])
    IN IF ~r.ok THEN ScanFail
       ELSE CASE At(b, e) = "]" -> ScanOk(e + 1, JArr(acc2))
              [] At(b, e) = "," -> ScanElems(b, SkipWS(b, e + 1), acc2)
              [] OTHER -> ScanFail

\* json.Decoder.Decode's read of the next value of a body: io.EOF on a body
\* of nothing but whitespace, a syntax error on bytes that are no JSON value;
\* bytes after the value are left unread.
ReadValue(b) ==
    LET i == SkipWS(b, 1)
        r == ScanValue(b, i)
    IN IF i > Len(b) THEN [err |-> "EOF", v |-> JNull]
       ELSE IF ~r.ok THEN [err |-> "syntax", v |-> JNull]
       ELSE [err |-> "nil", v |-> r.v]

\* ------------------------------------------------ JSON: decoding into Go values
\* Unmarshal of a scanned value v into a target that now holds cur: the
\* error ("nil", or "type" for an UnmarshalTypeError) and the target after.

UnmarshalUint64(v, cur) ==
    CASE v.t = "null" -> [err |-> "nil", val |-> cur]
      [] v.t = "num" /\ ~v.neg /\ DigitsLeq(v.s, MaxUint64Digits) ->
            [err |-> "nil", val |-> v.n]
      [] OTHER -> [err |-> "type", val |-> cur]

UnmarshalBool(v, cur) ==
    CASE v.t = "null" -> [err |-> "nil", val |-> cur]
      [] v.t = "bool" -> [err |-> "nil", val |-> v.bv]
      [] OTHER -> [err |-> "type", val |-> cur]

\* The two consensus RPC kinds, and the JSON keys of their replies: a reply
\* is [term, flag], flag being Success or VoteGranted.  A request is [term].
\* Struct "ae" or "rv" is that kind's reply, struct "req" a request.
Kinds == {"ae", "rv"}
TermKey == <<"t", "e", "r", "m">>
FlagKey(kind) ==
    IF kind = "ae" THEN <<"s", "u", "c", "c", "e", "s", "s">>
    ELSE <<"v", "o", "t", "e", "_", "g", "r", "a", "n", "t", "e", "d">>
PathOf(kind) == IF kind = "ae" THEN AppendEntriesPath ELSE RequestVotePath

\* raft.AppendEntriesResponse{} and raft.RequestVoteResponse{}.
ZeroReply == [term |-> 0, flag |-> FALSE]
\* var ae raft.AppendEntries; var rv raft.RequestVote.
ZeroRequest == [term |-> 0]

\* One member of an object into the struct: a key that names no field is
\* skipped; a value of the wrong type leaves its field alone and is an error.
\* (Keys match fields whatever their case; the bodies here are lower case.)
MemberInto(kind, mem, cur) ==
    CASE mem.key = TermKey ->
            LET r == UnmarshalUint64(mem.val, cur.term)
            IN [err |-> r.err, val |-> [cur EXCEPT !.term = r.val]]
      [] kind \in Kinds /\ mem.key = FlagKey(kind) ->
            LET r == UnmarshalBool(mem.val, cur.flag)
            IN [err |-> r.err, val |-> [cur EXCEPT !.flag = r.val]]
      [] OTHER -> [err |-> "nil", val |-> cur]

\* The members in order; decoding goes on after a type error and reports the
\* first one at the end.
RECURSIVE MembersInto(_, _, _, _)
MembersInto(kind, ms, cur, err) ==
    IF ms = <<>> THEN [err |-> err, val |-> cur]
    ELSE LET r == MemberInto(kind, Head(ms), cur)
         IN MembersInto(kind, Tail(ms), r.val,
                        IF err = "nil" THEN r.err ELSE err)

\* Into a struct: a reply of a kind, or a request.
UnmarshalReply(kind, v, cur) ==
    CASE v.t = "null" -> [err |-> "nil", val |-> cur]
      [] v.t = "obj" -> MembersInto(kind, v.m, cur, "nil")
      [] OTHER -> [err |-> "type", val |-> cur]

\* A bytes.Buffer has no exported field and is no json.Unmarshaler: an object
\* sets nothing, any other value but null is a type error.
UnmarshalBuffer(v, cur) ==
    CASE v.t \in {"null", "obj"} -> [err |-> "nil", val |-> cur]
      [] OTHER -> [err |-> "type", val |-> cur]

\* json.NewDecoder(body).Decode(&target), per target type.
DecodeUint64(body, cur) ==
    LET r == ReadValue(body)
    IN IF r.err # "nil" THEN [err |-> r.err, val |-> cur]
       ELSE UnmarshalUint64(r.v, cur)

DecodeReply(kind, body, cur) ==
    LET r == ReadValue(body)
    IN IF r.err # "nil" THEN [err |-> r.err, val |-> cur]
       ELSE UnmarshalReply(kind, r.v, cur)

DecodeRequest(body, cur) ==
    LET r == ReadValue(body)
    IN IF r.err # "nil" THEN [err |-> r.err, val |-> cur]
       ELSE UnmarshalReply("req", r.v, cur)

DecodeBuffer(body, cur) ==
    LET r == ReadValue(body)
    IN IF r.err # "nil" THEN [err |-> r.err, val |-> cur]
       ELSE UnmarshalBuffer(r.v, cur)

\* ------------------------------------------------------- JSON: encoding

Quote(s) == <<"\"">> \o s \o <<"\"">>
BoolLit(x) == IF x THEN <<"t", "r", "u", "e">> ELSE <<"f", "a", "l", "s", "e">>

\* json.NewEncoder(w).Encode(reply): the object, then a newline.
EncodeReply_TermOnly(kind, r) ==
    <<"{">> \o Quote(TermKey) \o <<":">> \o FormatUint(r.term) \o <<"}", "\n">>

EncodeReply(kind, r) ==
    <<"{">> \o Quote(TermKey) \o <<":">> \o FormatUint(r.term) \o <<",">>
        \o Quote(FlagKey(kind)) \o <<":">> \o BoolLit(r.flag) \o <<"}", "\n">>

\* A consensus request (raft.AppendEntries, raft.RequestVote), by its term.
EncodeRequest(kind, m) ==
    <<"{">> \o Quote(TermKey) \o <<":">> \o FormatUint(m.term) \o <<"}", "\n">>

\* The ASCII codes of the bytes command payloads are drawn from.
Ord(c) ==
    CASE c = "a" -> 97 [] c = "b" -> 98 [] c = "{" -> 123 [] c = "}" -> 125
      [] c = "\"" -> 34 [] c = "\n" -> 10 [] c = "0" -> 48 [] c = "1" -> 49

B64Chars ==
    <<"A", "B", "C", "D", "E", "F", "G", "H", "I", "J", "K", "L", "M",
      "N", "O", "P", "Q", "R", "S", "T", "U", "V", "W", "X", "Y", "Z",
      "a", "b", "c", "d", "e", "f", "g", "h", "i", "j", "k", "l", "m",
      "n", "o", "p", "q", "r", "s", "t", "u", "v", "w", "x", "y", "z",
      "0", "1", "2", "3", "4", "5", "6", "7", "8", "9", "+", "/">>
B64(n) == B64Chars[(n % 64) + 1]

\* base64.StdEncoding: three bytes to four characters, padded with "=".
RECURSIVE Base64(_)
Base64(b) ==
    CASE Len(b) = 0 -> <<>>
      [] Len(b) = 1 ->
            LET v == Ord(b[1]) * 65536
            IN <<B64(v \div 262144), B64(v \div 4096), "=", "=">>
      [] Len(b) = 2 ->
            LET v == Ord(b[1]) * 65536 + Ord(b[2]) * 256
            IN <<B64(v \div 262144), B64(v \div 4096), B64(v \div 64), "=">>
      [] OTHER ->
            LET v == Ord(b[1]) * 65536 + Ord(b[2]) * 256 + Ord(b[3])
            IN <<B64(v \div 262144), B64(v \div 4096), B64(v \div 64), B64(v)>>
               \o Base64(SubSeq(b, 4, Len(b)))

\* json.NewEncoder(body).Encode(cmd) of a non-nil []byte: a base64 string,
\* then a newline.
EncodeBytes(cmd) == Quote(Base64(cmd)) \o <<"\n">>

\* ------------------------------------------------------ http.ResponseWriter

\* A response not yet written to.
NoResponse == [wrote |-> FALSE, status |-> 0, body |-> <<>>]

\* w.WriteHeader(code): the first call decides the status.
WriteHeader(w, code) ==
    IF w.wrote THEN w ELSE [w EXCEPT !.wrote = TRUE, !.status = code]

\* w.Write(b): an implicit WriteHeader(200), then the bytes.
Write(w, b) ==
    LET h == WriteHeader(w, StatusOK) IN [h EXCEPT !.body = @ \o b]

\* http.Error(w, msg, code): WriteHeader(code), then fmt.Fprintln(w, msg),
\* which ends the message with a newline.
HttpError(w, msg, code) ==
    LET h == WriteHeader(w, code) IN [h EXCEPT !.body = @ \o msg \o <<"\n">>]

\* ----------------------------------------------------------------- state

VARIABLES
    engineId,   \* s.server.Id(): the identity of the engine behind HTTPServer
    engineLog,  \* the consensus requests the engine was invoked with, in order
    res,        \* one call of NewHTTPPeer
    peer,       \* an HTTPPeer that NewHTTPPeer returned earlier
    call,       \* one call of peer.AppendEntries or peer.RequestVote
    hs,         \* the invocations of commandHandler, one per inbound request
    pcmd,       \* one call of peer.Command and the goroutine it starts
    rch,        \* the reply channel that call was given
    reader,     \* whoever receives from that channel
    inb,        \* one POST of some other client to a consensus route
    idReads     \* what the calls of peer.Id() returned, in order

vars == <<engineId, engineLog, res, peer, call, hs, pcmd, rch, reader, inb,
          idReads>>

\* What the actions of one component leave alone.
resFrame == <<engineId, engineLog, peer, call, hs, pcmd, rch, reader, inb,
              idReads>>
callFrame == <<engineId, res, hs, pcmd, rch, reader, inb, idReads>>
hsFrame == <<engineId, engineLog, res, peer, call, pcmd, rch, reader, inb,
             idReads>>
pcmdFrame == <<engineId, engineLog, res, peer, call, inb, idReads>>

\* A url.URL by its host, path and query.  Who answers at a host: "srv" is an
\* HTTPServer installed on a mux, "ext" is some other HTTP endpoint, "down"
\* answers nothing.
Hosts == {"srv", "ext", "down"}
InputPaths == {"", "/x", CommandPath}
Queries == {"", "x=1"}
InputURLs == [host : Hosts, path : InputPaths, query : Queries]

NoURL == [host |-> "none", path |-> "", query |-> ""]
NoPeer == [ok |-> FALSE, id |-> 0, url |-> NoURL]
NoHTTP == [status |-> 0, body |-> <<>>]

\* The response a client sees of what a handler wrote.
Sent(w) == [status |-> w.status, body |-> w.body]

\* Bodies an endpoint that is no HTTPServer may answer an identity GET with.
ExtIdBodies ==
    { <<>>, <<"0">>, <<"7">>, <<"1", "2">>, <<"0", "7">>, <<"-", "1">>,
      <<"n", "u", "l", "l">>, <<"x">>, <<"\"", "7", "\"">>, <<" ", "7", "\n">>,
      <<"7", "x">>, <<"{", "}">> }
ExtStatuses == {StatusOK, StatusBadRequest, StatusInternalServerError}

ResInit ==
    res = [pc |-> "idle", in |-> NoURL, u |-> NoURL, req |-> NoURL, resp |-> NoHTTP,
           peer |-> NoPeer, err |-> "nil"]

\* ----------------------------------------------------------- NewHTTPPeer

\* The path is left on the address.
StripPath_Kept(u) == u

\* u.Path = "": the address the peer will keep.
StripPath(u) == [u EXCEPT !.path = ""]

\* idUrl := u; idUrl.Path = IdPath.
IdUrl(u) == [u EXCEPT !.path = IdPath]

\* Lines 36-40: strip the path, build the identity URL, send the GET.
NewHTTPPeerGet(u) ==
    /\ res.pc = "idle"
    /\ res' = [res EXCEPT !.pc = "get", !.in = u, !.u = StripPath(u),
                          !.req = IdUrl(StripPath(u))]
    /\ UNCHANGED resFrame

\* Lines 40-43: http.Get fails (nothing answers, or the connection breaks).
NewHTTPPeerGetFails ==
    /\ res.pc = "get"
    /\ res' = [res EXCEPT !.pc = "done", !.err = "network", !.peer = NoPeer]
    /\ UNCHANGED resFrame

\* The identity route: the engine's identity, printed in decimal.
idHandler(w) == Write(w, FormatUint(engineId))

\* The mux of an HTTPServer dispatches the GET to the identity route.
ServeId ==
    /\ res.pc = "get"
    /\ res.req.host = "srv"
    /\ res.req.path = IdPath
    /\ res' = [res EXCEPT !.pc = "resp", !.resp = Sent(idHandler(NoResponse))]
    /\ UNCHANGED resFrame

\* Another endpoint answers the GET with what it likes.
ExtAnswersId(status, body) ==
    /\ res.pc = "get"
    /\ res.req.host = "ext"
    /\ res' = [res EXCEPT !.pc = "resp",
                          !.resp = [status |-> status, body |-> body]]
    /\ UNCHANGED resFrame

\* Lines 46-54 on a response: decode the body into id; the status is not
\* looked at.
ResolveResult(u, resp) ==
    LET d == DecodeUint64(resp.body, 0)
    IN IF d.err # "nil" THEN [err |-> d.err, peer |-> NoPeer]
       ELSE [err |-> "nil", peer |-> [ok |-> TRUE, id |-> d.val, url |-> u]]

NewHTTPPeerReturn ==
    /\ res.pc = "resp"
    /\ LET r == ResolveResult(res.u, res.resp)
       IN res' = [res EXCEPT !.pc = "done", !.err = r.err, !.peer = r.peer]
    /\ UNCHANGED resFrame

\* p.Id().
Id(p) == p.id

\* ------------------------------------------- AppendEntries and RequestVote

Terms == 0..MaxTerm
Requests == [term : Terms]
EngineReplies == [term : Terms, flag : BOOLEAN]

NoRequest == [url |-> NoURL, body |-> <<>>]

\* The peers NewHTTPPeer can have returned: any host, no path.
PeerInit ==
    peer \in {[ok |-> TRUE, id |-> engineId,
               url |-> [host |-> h, path |-> "", query |-> ""]] : h \in Hosts}

CallInit ==
    /\ call = [pc |-> "idle", kind |-> "none", msg |-> ZeroRequest,
               req |-> NoRequest, resp |-> NoHTTP, reply |-> ZeroReply,
               err |-> "nil", code |-> 0, posts |-> 0]
    /\ engineLog = <<>>

\* A JSON object of two members, and bodies an endpoint that is no
\* HTTPServer may answer a consensus RPC with.
Obj2(k1, v1, k2, v2) ==
    <<"{">> \o Quote(k1) \o <<":">> \o v1 \o <<",">>
        \o Quote(k2) \o <<":">> \o v2 \o <<"}">>
ExtReplyBodies(kind) ==
    { <<>>,
      <<"n", "u", "l", "l">>,
      <<"7">>,
      <<"[", "]">>,
      <<"{", "}">>,
      EncodeReply(kind, [term |-> 5, flag |-> TRUE]),
      EncodeReply(kind, [term |-> 0, flag |-> FALSE]),
      SubSeq(EncodeReply(kind, [term |-> 5, flag |-> TRUE]), 1, 9),
      Obj2(TermKey, <<"5">>, FlagKey(kind), Quote(<<"x">>)),
      Obj2(TermKey, Quote(<<"x">>), FlagKey(kind), BoolLit(TRUE)),
      Obj2(FlagKey(kind), BoolLit(TRUE), TermKey, <<"-", "1">>),
      Obj2(TermKey, <<"5">>, <<"x">>, <<"[", "1", "]">>) }

\* Lines 86-87 of rpc: url := p.url; url.Path = path.
RpcUrl(p, path) == [p.url EXCEPT !.path = path]

\* The path is set on the URL the peer holds.
PeerAfterRpc_Aliased(p, path) == [p EXCEPT !.url.path = path]

\* The peer after those lines: url is a copy of p.url, a struct value, so
\* setting its path leaves the peer as it was.
PeerAfterRpc(p, path) == p

\* json.NewDecoder(resp.Body).Decode(response) for the target rpc was given:
\* a reply of a consensus kind, or for "cmd" the bytes.Buffer of Command.
Decode(kind, body, cur) ==
    IF kind = "cmd" THEN DecodeBuffer(body, cur) ELSE DecodeReply(kind, body, cur)

\* The body is decoded whatever the status.
RpcResult_NoStatusCheck(kind, resp, cur) ==
    LET d == Decode(kind, resp.body, cur)
    IN [err |-> d.err, code |-> 0, val |-> d.val]

\* The body is decoded into the target before the status is looked at.
RpcResult_DecodeFirst(kind, resp, cur) ==
    LET d == Decode(kind, resp.body, cur)
    IN IF resp.status # StatusOK
       THEN [err |-> "status", code |-> resp.status, val |-> d.val]
       ELSE [err |-> d.err, code |-> 0, val |-> d.val]

\* Lines 93-101 of rpc on a response, for a reply target that holds cur: a
\* status other than 200 is an error before any decoding; else the body is
\* decoded into the target.
RpcResult(kind, resp, cur) ==
    IF resp.status # StatusOK
    THEN [err |-> "status", code |-> resp.status, val |-> cur]
    ELSE LET d == Decode(kind, resp.body, cur)
         IN [err |-> d.err, code |-> 0, val |-> d.val]

\* Lines 59-61 / 65-67 and 81-88: the zero reply is declared, rpc encodes the
\* request and posts it to the kind's path.
ConsensusCall(kind, m) ==
    /\ call.pc = "idle"
    /\ call' = [call EXCEPT !.pc = "post", !.kind = kind, !.msg = m,
                            !.reply = ZeroReply,
                            !.req = [url |-> RpcUrl(peer, PathOf(kind)),
                                     body |-> EncodeRequest(kind, m)],
                            !.posts = @ + 1]
    /\ peer' = PeerAfterRpc(peer, PathOf(kind))
    /\ UNCHANGED <<callFrame, engineLog>>

AppendEntries(ae) == ConsensusCall("ae", ae)
RequestVote(rv) == ConsensusCall("rv", rv)

\* Lines 81-84: should the encoding of the request fail, rpc returns its
\* error before any POST, and the method returns the zero reply.
EncodeFails(kind, m) ==
    /\ call.pc = "idle"
    /\ call' = [call EXCEPT !.pc = "done", !.kind = kind, !.msg = m,
                            !.reply = ZeroReply, !.err = "encode"]
    /\ UNCHANGED <<callFrame, peer, engineLog>>

\* The POST is issued again when it fails.
PostFails_Retry ==
    /\ call.pc = "post"
    /\ call.posts < 3
    /\ call' = [call EXCEPT !.posts = @ + 1]
    /\ UNCHANGED <<callFrame, peer, engineLog>>

\* Lines 88-91: http.Post fails; rpc returns the error, the method returns
\* its reply as it is.
PostFails ==
    /\ call.pc = "post"
    /\ call' = [call EXCEPT !.pc = "done", !.err = "network"]
    /\ UNCHANGED <<callFrame, peer, engineLog>>

\* emptyAppendEntriesResponse / emptyRequestVoteResponse, set by init.
EmptyResponse(kind) == EncodeReply(kind, ZeroReply)

\* The 400 response carries no message.
ConsensusHandler_NoBody(kind, w, body, r) ==
    LET d == DecodeRequest(body, ZeroRequest)
    IN IF d.err # "nil"
       THEN [w |-> HttpError(w, <<>>, StatusBadRequest),
             invoked |-> FALSE, msg |-> ZeroRequest]
       ELSE [w |-> Write(w, EncodeReply(kind, r)),
             invoked |-> TRUE, msg |-> d.val]

\* The body of appendEntriesHandler / requestVoteHandler on a request body,
\* the engine answering r if it is invoked: [w, invoked, msg].
ConsensusHandler(kind, w, body, r) ==
    LET d == DecodeRequest(body, ZeroRequest)
    IN IF d.err # "nil"
       THEN [w |-> HttpError(w, EmptyResponse(kind), StatusBadRequest),
             invoked |-> FALSE, msg |-> ZeroRequest]
       ELSE [w |-> Write(w, EncodeReply(kind, r)),
             invoked |-> TRUE, msg |-> d.val]

\* The mux of an HTTPServer dispatches the POST to the route of its path.
ServeConsensus(kind, r) ==
    /\ call.pc = "post"
    /\ call.req.url.host = "srv"
    /\ call.req.url.path = PathOf(kind)
    /\ LET h == ConsensusHandler(kind, NoResponse, call.req.body, r)
       IN /\ call' = [call EXCEPT !.pc = "resp", !.resp = Sent(h.w)]
          /\ engineLog' = IF h.invoked
                          THEN Append(engineLog, [kind |-> kind, msg |-> h.msg,
                                                  reply |-> r])
                          ELSE engineLog
    /\ UNCHANGED <<callFrame, peer>>

appendEntriesHandler(r) == ServeConsensus("ae", r)
requestVoteHandler(r) == ServeConsensus("rv", r)

\* Another endpoint answers the POST with what it likes.
ExtAnswersRpc(status, body) ==
    /\ call.pc = "post"
    /\ call.req.url.host = "ext"
    /\ call' = [call EXCEPT !.pc = "resp",
                            !.resp = [status |-> status, body |-> body]]
    /\ UNCHANGED <<callFrame, peer, engineLog>>

\* Lines 93-101, then line 62 / 68: rpc ends, its error is dropped and the
\* method returns the reply.
ConsensusReturn ==
    /\ call.pc = "resp"
    /\ LET r == RpcResult(call.kind, call.resp, call.reply)
       IN call' = [call EXCEPT !.pc = "done", !.err = r.err, !.code = r.code,
                               !.reply = r.val]
    /\ UNCHANGED <<callFrame, peer, engineLog>>

RpcNext ==
    \/ \E m \in Requests : AppendEntries(m)
    \/ \E m \in Requests : RequestVote(m)
    \/ \E k \in Kinds, m \in Requests : EncodeFails(k, m)
    \/ PostFails
    \/ \E r \in EngineReplies : appendEntriesHandler(r)
    \/ \E r \in EngineReplies : requestVoteHandler(r)
    \/ \E st \in ExtStatuses : \E b \in ExtReplyBodies(call.kind) :
          ExtAnswersRpc(st, b)
    \/ ConsensusReturn

\* ------------------------------------- the consensus routes, any client

\* Request bodies a client that is no HTTPPeer may post to a consensus route.
InboundBodies ==
    { <<>>,
      <<"x">>,
      <<"{">>,
      <<"[", "]">>,
      <<"7">>,
      <<"n", "u", "l", "l">>,
      <<"{", "}">>,
      EncodeRequest("ae", [term |-> 5]),
      SubSeq(EncodeRequest("ae", [term |-> 5]), 1, 8),
      <<"{">> \o Quote(TermKey) \o <<":">> \o Quote(<<"x">>) \o <<"}">>,
      <<"{">> \o Quote(TermKey) \o <<":", "-", "1", "}">>,
      Obj2(TermKey, <<"5">>, <<"x">>, <<"[", "1", "]">>) }

NoInbound ==
    [pc |-> "idle", kind |-> "none", body |-> <<>>, w |-> NoResponse,
     invoked |-> FALSE, msg |-> ZeroRequest]

InbInit == inb = NoInbound

inbFrame == <<engineId, res, peer, call, hs, pcmd, rch, reader, idReads>>

\* The client posts body to the route of a kind.
InboundPost(kind, body) ==
    /\ inb.pc = "idle"
    /\ inb' = [inb EXCEPT !.pc = "start", !.kind = kind, !.body = body]
    /\ UNCHANGED <<inbFrame, engineLog>>

\* The mux runs appendEntriesHandler / requestVoteHandler on that request.
ServeInbound(kind, r) ==
    /\ inb.pc = "start"
    /\ inb.kind = kind
    /\ LET h == ConsensusHandler(kind, NoResponse, inb.body, r)
       IN /\ inb' = [inb EXCEPT !.pc = "done", !.w = h.w,
                                !.invoked = h.invoked, !.msg = h.msg]
          /\ engineLog' = IF h.invoked
                          THEN Append(engineLog, [kind |-> kind, msg |-> h.msg,
                                                  reply |-> r])
                          ELSE engineLog
    /\ UNCHANGED inbFrame

InboundNext ==
    \/ \E k \in Kinds, b \in InboundBodies : InboundPost(k, b)
    \/ \E k \in Kinds, r \in EngineReplies : ServeInbound(k, r)

\* ------------------------------------------------------- the command route

\* The inbound command requests the model follows.
Reqs == {"r1", "r2"}
\* Request bodies, and the values an engine sends on a reply channel.
CmdBodies == {<<>>, <<"a", "b">>}
CmdReplies == {<<>>, <<"a">>, <<"b">>}

\* make(chan []byte, 1), and a channel not made yet.
ReplyChanCap == 1
NewChan(cap) == [cap |-> cap, buf |-> <<>>, closed |-> FALSE]
NoChan == [cap |-> 0, buf |-> <<>>, closed |-> FALSE]

HsInit ==
    hs = [h \in Reqs |->
            [pc |-> "idle", body |-> <<>>, readOk |-> TRUE, cmd |-> <<>>,
             submitted |-> FALSE, accepted |-> FALSE, ch |-> NoChan,
             sent |-> <<>>, recvs |-> 0, recvOk |-> FALSE, w |-> NoResponse]]

\* A client posts a body to the command route; readOk is whether the whole
\* body will reach the server.
CommandRequest(h, body, readOk) ==
    /\ hs[h].pc = "idle"
    /\ hs' = [hs EXCEPT ![h].pc = "start", ![h].body = body,
                        ![h].readOk = readOk]
    /\ UNCHANGED hsFrame

\* The reply channel is made without a buffer.
CommandSubmit_Unbuffered(x, accept) ==
    IF ~x.readOk
    THEN [x EXCEPT !.pc = "done", !.w = HttpError(x.w, <<>>, StatusBadRequest)]
    ELSE LET y == [x EXCEPT !.cmd = x.body, !.ch = NewChan(0),
                            !.submitted = TRUE, !.accepted = accept]
         IN IF ~accept
            THEN [y EXCEPT !.pc = "done",
                           !.w = HttpError(x.w, <<>>, StatusInternalServerError)]
            ELSE [y EXCEPT !.pc = "wait"]

\* Lines 173-183: read the body (400 if that fails), make the reply channel
\* and submit both to the engine, which accepts or not (500 if not).
CommandSubmit(x, accept) ==
    IF ~x.readOk
    THEN [x EXCEPT !.pc = "done", !.w = HttpError(x.w, <<>>, StatusBadRequest)]
    ELSE LET y == [x EXCEPT !.cmd = x.body, !.ch = NewChan(ReplyChanCap),
                            !.submitted = TRUE, !.accepted = accept]
         IN IF ~accept
            THEN [y EXCEPT !.pc = "done",
                           !.w = HttpError(x.w, <<>>, StatusInternalServerError)]
            ELSE [y EXCEPT !.pc = "wait"]

commandHandlerSubmit(h, accept) ==
    /\ hs[h].pc = "start"
    /\ hs' = [hs EXCEPT ![h] = CommandSubmit(hs[h], accept)]
    /\ UNCHANGED hsFrame

\* The engine sends a value on a reply channel it was given; a send waits
\* while the buffer is full.
EngineSend(h, v) ==
    /\ hs[h].submitted
    /\ ~hs[h].ch.closed
    /\ Len(hs[h].ch.buf) < hs[h].ch.cap
    /\ Len(hs[h].sent) < MaxSends
    /\ hs' = [hs EXCEPT ![h].ch.buf = Append(@, v), ![h].sent = Append(@, v)]
    /\ UNCHANGED hsFrame

\* The engine closes a reply channel it was given.
EngineClose(h) ==
    /\ hs[h].submitted
    /\ ~hs[h].ch.closed
    /\ hs' = [hs EXCEPT ![h].ch.closed = TRUE]
    /\ UNCHANGED hsFrame

\* The value is written the way http.Error writes a message.
CommandReply_Println(w, resp, ok) ==
    IF ~ok THEN HttpError(w, <<>>, StatusInternalServerError)
    ELSE HttpError(w, resp, StatusOK)

\* Lines 186-191 on what the receive yielded: 500 through http.Error when
\* the channel was closed, else the value as the body.
CommandReply(w, resp, ok) ==
    IF ~ok THEN HttpError(w, <<>>, StatusInternalServerError)
    ELSE Write(w, resp)

\* The wait ends though nothing was sent and nothing closed.
CanReceive_Timeout(ch) == TRUE

\* A receive goes ahead once the channel holds a value or is closed.
CanReceive(ch) == ch.buf # <<>> \/ ch.closed

\* All handlers receive from one channel of the server: a handler takes the
\* value that waits in any request's channel.
commandHandlerReceive_Shared(h) ==
    /\ hs[h].pc = "wait"
    /\ \E g \in Reqs :
          /\ hs[g].ch.buf # <<>>
          /\ hs' = [hs EXCEPT ![g].ch.buf = Tail(@),
                              ![h].pc = "done",
                              ![h].recvs = @ + 1,
                              ![h].recvOk = TRUE,
                              ![h].w = CommandReply(@, Head(hs[g].ch.buf), TRUE)]
    /\ UNCHANGED hsFrame

\* Line 185, resp, ok := <-response, which waits until it can go ahead; then
\* lines 186-191.
commandHandlerReceive(h) ==
    /\ hs[h].pc = "wait"
    /\ CanReceive(hs[h].ch)
    /\ LET ok == hs[h].ch.buf # <<>>
           resp == IF ok THEN Head(hs[h].ch.buf) ELSE <<>>
       IN hs' = [hs EXCEPT ![h].pc = "done",
                           ![h].ch.buf = IF ok THEN Tail(@) ELSE @,
                           ![h].recvs = @ + 1,
                           ![h].recvOk = ok,
                           ![h].w = CommandReply(@, resp, ok)]
    /\ UNCHANGED hsFrame

RouteNext ==
    \/ \E h \in Reqs, b \in CmdBodies, ok \in BOOLEAN : CommandRequest(h, b, ok)
    \/ \E h \in Reqs, a \in BOOLEAN : commandHandlerSubmit(h, a)
    \/ \E h \in Reqs, v \in CmdReplies : EngineSend(h, v)
    \/ \E h \in Reqs : EngineClose(h)
    \/ \E h \in Reqs : commandHandlerReceive(h)

\* ---------------------------------------------------------- HTTPPeer.Command

\* Payloads a caller submits, the reply channels it may pass (unbuffered,
\* one free slot, one slot already taken), and bodies an endpoint that is no
\* HTTPServer may answer a command with.
PeerCmds == {<<>>, <<"a">>, <<"a", "b">>}
CallerChans ==
    { NewChan(0), NewChan(1), [NewChan(1) EXCEPT !.buf = << <<"0">> >>] }
ExtCmdBodies ==
    { <<>>, <<"a">>, <<"{", "}">>, <<"n", "u", "l", "l">>,
      EncodeBytes(<<"a">>), <<"{", "\"", "a", "\"", ":", "1", "}", "\n">> }

PcmdInit ==
    /\ pcmd = [callerPc |-> "idle", ret |-> "none", cmd |-> <<>>, g |-> "none",
               req |-> NoRequest, h |-> "none", resp |-> NoHTTP,
               err |-> "nil", code |-> 0, buf |-> <<>>, sends |-> <<>>,
               posts |-> 0]
    /\ rch = NoChan
    /\ reader = [waiting |-> FALSE, got |-> <<>>]

\* The function runs in the caller, which waits for it.
CommandStart_Inline(x, cmd) ==
    [x EXCEPT !.callerPc = "waiting", !.cmd = cmd, !.g = "spawned"]

\* Lines 72-77: the go statement starts the goroutine and Command returns
\* nil at once.
CommandStart(x, cmd) ==
    [x EXCEPT !.callerPc = "returned", !.ret = "nil", !.cmd = cmd,
              !.g = "spawned"]

Command(cmd, response) ==
    /\ pcmd.callerPc = "idle"
    /\ pcmd' = CommandStart(pcmd, cmd)
    /\ rch' = response
    /\ UNCHANGED <<pcmdFrame, hs, reader>>

\* Lines 73-74 and 81-88: the goroutine declares responseBuf, and rpc
\* encodes cmd and posts it to the command path.
GoPost ==
    /\ pcmd.g = "spawned"
    /\ pcmd' = [pcmd EXCEPT !.g = "post", !.buf = <<>>,
                            !.req = [url |-> RpcUrl(peer, CommandPath),
                                     body |-> EncodeBytes(pcmd.cmd)],
                            !.posts = @ + 1]
    /\ peer' = PeerAfterRpc(peer, CommandPath)
    /\ UNCHANGED <<engineId, engineLog, res, call, inb, idReads, hs, rch,
                   reader>>

\* Lines 88-91: http.Post fails, before or after the request reached a route.
GoPostFails ==
    /\ pcmd.g \in {"post", "inflight"}
    /\ pcmd' = [pcmd EXCEPT !.g = "send", !.err = "network"]
    /\ UNCHANGED <<pcmdFrame, hs, rch, reader>>

\* The mux of an HTTPServer hands the POST to a new commandHandler invocation.
PostReachesRoute(h) ==
    /\ pcmd.g = "post"
    /\ pcmd.req.url.host = "srv"
    /\ pcmd.req.url.path = CommandPath
    /\ hs[h].pc = "idle"
    /\ hs' = [hs EXCEPT ![h].pc = "start", ![h].body = pcmd.req.body,
                        ![h].readOk = TRUE]
    /\ pcmd' = [pcmd EXCEPT !.g = "inflight", !.h = h]
    /\ UNCHANGED <<pcmdFrame, rch, reader>>

\* The handler has returned: its response reaches the goroutine.
RouteAnswers ==
    /\ pcmd.g = "inflight"
    /\ hs[pcmd.h].pc = "done"
    /\ pcmd' = [pcmd EXCEPT !.g = "resp", !.resp = Sent(hs[pcmd.h].w)]
    /\ UNCHANGED <<pcmdFrame, hs, rch, reader>>

\* Another endpoint answers the POST with what it likes.
ExtAnswersCommand(status, body) ==
    /\ pcmd.g = "post"
    /\ pcmd.req.url.host = "ext"
    /\ pcmd' = [pcmd EXCEPT !.g = "resp",
                            !.resp = [status |-> status, body |-> body]]
    /\ UNCHANGED <<pcmdFrame, hs, rch, reader>>

\* Lines 93-101 with responseBuf as the target; line 74 drops rpc's error.
GoRpcReturn ==
    /\ pcmd.g = "resp"
    /\ LET r == RpcResult("cmd", pcmd.resp, pcmd.buf)
       IN pcmd' = [pcmd EXCEPT !.g = "send", !.err = r.err, !.code = r.code,
                               !.buf = r.val]
    /\ UNCHANGED <<pcmdFrame, hs, rch, reader>>

\* A send can go ahead when a receiver waits on an empty channel or the
\* buffer has room.
CanSend(ch, rd) == (rd.waiting /\ ch.buf = <<>>) \/ Len(ch.buf) < ch.cap

\* Line 75: response <- responseBuf.Bytes(), whatever rpc returned.  The
\* value goes to a waiting receiver, else into the buffer.
GoSend ==
    /\ pcmd.g = "send"
    /\ CanSend(rch, reader)
    /\ IF reader.waiting /\ rch.buf = <<>>
       THEN /\ reader' = [waiting |-> FALSE, got |-> Append(reader.got, pcmd.buf)]
            /\ rch' = rch
       ELSE /\ rch' = [rch EXCEPT !.buf = Append(@, pcmd.buf)]
            /\ reader' = reader
    /\ pcmd' = [pcmd EXCEPT !.g = "done", !.sends = Append(@, pcmd.buf)]
    /\ UNCHANGED <<pcmdFrame, hs>>

\* The reader starts a receive; it takes a buffered value at once, else waits.
ReaderReceive ==
    /\ pcmd.callerPc = "returned"
    /\ ~reader.waiting
    /\ Len(reader.got) < MaxRecv
    /\ IF rch.buf # <<>>
       THEN /\ reader' = [reader EXCEPT !.got = Append(@, Head(rch.buf))]
            /\ rch' = [rch EXCEPT !.buf = Tail(@)]
       ELSE /\ reader' = [reader EXCEPT !.waiting = TRUE]
            /\ rch' = rch
    /\ UNCHANGED <<pcmdFrame, hs, pcmd>>

PeerCmdNext ==
    \/ \E c \in PeerCmds, ch \in CallerChans : Command(c, ch)
    \/ GoPost
    \/ GoPostFails
    \/ \E h \in Reqs : PostReachesRoute(h)
    \/ \E h \in Reqs, a \in BOOLEAN : commandHandlerSubmit(h, a)
    \/ \E h \in Reqs, v \in CmdReplies : EngineSend(h, v)
    \/ \E h \in Reqs : EngineClose(h)
    \/ \E h \in Reqs : commandHandlerReceive(h)
    \/ RouteAnswers
    \/ \E st \in ExtStatuses, b \in ExtCmdBodies : ExtAnswersCommand(st, b)
    \/ GoRpcReturn
    \/ GoSend
    \/ ReaderReceive

\* ------------------------------------------------ the methods of one peer

\* How many calls of p.Id() the model follows.
MaxIdReads == 2

\* p.Id(), line 57.
IdCall ==
    /\ peer.ok
    /\ Len(idReads) < MaxIdReads
    /\ idReads' = Append(idReads, Id(peer))
    /\ UNCHANGED <<engineId, engineLog, res, peer, call, hs, pcmd, rch, reader,
                   inb>>

\* Id, AppendEntries, RequestVote and Command of one peer in any order and
\* interleaving, each on one input, against every kind of endpoint.
PeerNext ==
    \/ IdCall
    \/ AppendEntries(ZeroRequest)
    \/ RequestVote(ZeroRequest)
    \/ \E k \in Kinds : EncodeFails(k, ZeroRequest)
    \/ PostFails
    \/ appendEntriesHandler(ZeroReply)
    \/ requestVoteHandler(ZeroReply)
    \/ \E st \in ExtStatuses : ExtAnswersRpc(st, <<>>)
    \/ ConsensusReturn
    \/ Command(<<"a">>, NewChan(ReplyChanCap))
    \/ GoPost
    \/ GoPostFails
    \/ PostReachesRoute("r1")
    \/ \E a \in BOOLEAN : commandHandlerSubmit("r1", a)
    \/ EngineSend("r1", <<"a">>)
    \/ EngineClose("r1")
    \/ commandHandlerReceive("r1")
    \/ RouteAnswers
    \/ \E st \in ExtStatuses : ExtAnswersCommand(st, <<>>)
    \/ GoRpcReturn
    \/ GoSend
    \/ ReaderReceive

ResolveNext ==
    \/ \E u \in InputURLs : NewHTTPPeerGet(u)
    \/ NewHTTPPeerGetFails
    \/ ServeId
    \/ \E st \in ExtStatuses, b \in ExtIdBodies : ExtAnswersId(st, b)
    \/ NewHTTPPeerReturn

\* ------------------------------------------------------- specifications
\* The claims are checked under one specification per operation: the
\* operations share no state but the command route, which SpecPeerCmd includes.

Next ==
    ResolveNext \/ RpcNext \/ InboundNext \/ RouteNext \/ PeerCmdNext \/ PeerNext

\* Everything at once: any engine identity, a peer at any host.
Init ==
    /\ engineId \in 1..MaxId
    /\ ResInit
    /\ PeerInit
    /\ CallInit
    /\ HsInit
    /\ PcmdInit
    /\ InbInit
    /\ idReads = <<>>

Spec == Init /\ [][Next]_vars

\* NewHTTPPeer alone, before any peer exists.
InitResolve ==
    /\ engineId \in 1..MaxId
    /\ ResInit
    /\ peer = NoPeer
    /\ CallInit
    /\ HsInit
    /\ PcmdInit
    /\ InbInit
    /\ idReads = <<>>

SpecResolve == InitResolve /\ [][ResolveNext]_vars

\* The consensus RPCs of a peer, against an engine of identity 1.
InitRpc ==
    /\ engineId = 1
    /\ ResInit
    /\ PeerInit
    /\ CallInit
    /\ HsInit
    /\ PcmdInit
    /\ InbInit
    /\ idReads = <<>>

SpecRpc == InitRpc /\ [][RpcNext]_vars

\* The command route of an HTTPServer and its engine.
InitRoute ==
    /\ engineId = 1
    /\ ResInit
    /\ peer = NoPeer
    /\ CallInit
    /\ HsInit
    /\ PcmdInit
    /\ InbInit
    /\ idReads = <<>>

SpecRoute == InitRoute /\ [][RouteNext]_vars

\* The consensus routes of an HTTPServer, posted to by any client.
InitInbound ==
    /\ engineId = 1
    /\ ResInit
    /\ peer = NoPeer
    /\ CallInit
    /\ HsInit
    /\ PcmdInit
    /\ InbInit
    /\ idReads = <<>>

SpecInbound == InitInbound /\ [][InboundNext]_vars

\* The same, a handler that can receive being scheduled in the end: a
\* goroutine that can run is run.
SpecRouteFair ==
    SpecRoute /\ \A h \in Reqs : WF_vars(commandHandlerReceive(h))

\* peer.Command against an HTTPServer's command route or another endpoint.
InitPeerCmd ==
    /\ engineId = 1
    /\ ResInit
    /\ PeerInit
    /\ CallInit
    /\ HsInit
    /\ PcmdInit
    /\ InbInit
    /\ idReads = <<>>

SpecPeerCmd == InitPeerCmd /\ [][PeerCmdNext]_vars

\* All the methods of one peer at once.
InitPeer ==
    /\ engineId = 1
    /\ ResInit
    /\ PeerInit
    /\ CallInit
    /\ HsInit
    /\ PcmdInit
    /\ InbInit
    /\ idReads = <<>>

SpecPeer == InitPeer /\ [][PeerNext]_vars

\* ------------------------------------------------------------------ claims

\* C1: a command request whose body was read, whose submission the engine
\* accepted and on whose reply channel exactly one value v was sent is
\* answered with status 200 and a body of exactly v.
C1_ValueDelivered ==
    \A h \in Reqs :
        (hs[h].pc = "done" /\ hs[h].readOk /\ hs[h].accepted
            /\ Len(hs[h].sent) = 1)
        => (hs[h].w.status = StatusOK /\ hs[h].w.body = hs[h].sent[1])

C1_Witness ==
    \E h \in Reqs :
        /\ hs[h].pc = "done" /\ hs[h].accepted
        /\ hs[h].sent = << <<"a">> >>
        /\ hs[h].w = [wrote |-> TRUE, status |-> StatusOK, body |-> <<"a">>]

\* C2: an accepted command whose reply channel is closed with no value sent
\* is answered with status 500 and an empty body.
C2_ClosedGivesEmpty500 ==
    \A h \in Reqs :
        (hs[h].pc = "done" /\ hs[h].accepted /\ hs[h].ch.closed
            /\ hs[h].sent = <<>>)
        => (hs[h].w.status = StatusInternalServerError /\ hs[h].w.body = <<>>)

\* C3: when rpc fails, AppendEntries and RequestVote return a reply whose
\* every field has its zero value.
C3_ErrorGivesZeroReply ==
    (call.pc = "done" /\ call.err # "nil") => call.reply = ZeroReply

\* C4: against a remote that answers 500, whatever the body, AppendEntries
\* and RequestVote return the zero reply.
C4_Status500GivesZeroReply ==
    (call.pc = "done" /\ call.resp.status = StatusInternalServerError)
    => call.reply = ZeroReply

C4_Witness ==
    /\ call.pc = "done"
    /\ call.resp.status = StatusInternalServerError
    /\ call.resp.body = EncodeReply(call.kind, [term |-> 5, flag |-> TRUE])
    /\ call.reply = ZeroReply

\* C5: NewHTTPPeer returns an error and no peer when the GET fails, when
\* the status of the response is not 200, and when the body does not decode
\* as an unsigned integer.
C5_ResolutionFails ==
    (res.pc = "done"
        /\ (res.resp = NoHTTP
            \/ res.resp.status # StatusOK
            \/ DecodeUint64(res.resp.body, 0).err # "nil"))
    => (res.err # "nil" /\ ~res.peer.ok)

\* C6: a peer NewHTTPPeer returns without error has a non-zero id, and a
\* resolution that fails returns no peer.
C6_IdNeverZero ==
    res.pc = "done"
    => /\ (res.err = "nil" => res.peer.ok /\ Id(res.peer) # 0)
       /\ (res.err # "nil" => ~res.peer.ok)

\* C7: pointed at an HTTPServer whose engine has identity n, by any URL,
\* NewHTTPPeer succeeds unless the GET fails, the peer's id is n, and the
\* address it keeps is the input with an empty path.
C7_RoundTrip ==
    (res.pc = "done" /\ res.in.host = "srv" /\ res.err # "network")
    => /\ res.err = "nil"
       /\ res.peer.ok
       /\ Id(res.peer) = engineId
       /\ res.peer.url = [res.in EXCEPT !.path = ""]

C7_Witness ==
    /\ res.pc = "done"
    /\ res.in = [host |-> "srv", path |-> "/x", query |-> "x=1"]
    /\ engineId = 12
    /\ res.resp = [status |-> StatusOK, body |-> <<"1", "2">>]
    /\ res.peer = [ok |-> TRUE, id |-> 12,
                   url |-> [host |-> "srv", path |-> "", query |-> "x=1"]]

\* C8: when the RPC of Command fails, the reply channel is closed and no
\* value is sent on it.
C8_FailureClosesChannel ==
    (pcmd.g = "done" /\ pcmd.err # "nil")
    => (rch.closed /\ pcmd.sends = <<>>)

\* C9: Command has returned nil to its caller from the moment the goroutine
\* exists, wherever the goroutine is and whatever the channel can take.
C9_ReturnsAtOnce ==
    pcmd.g # "none" => (pcmd.callerPc = "returned" /\ pcmd.ret = "nil")

C9_Witness ==
    /\ pcmd.callerPc = "returned"
    /\ pcmd.g = "send"
    /\ ~CanSend(rch, reader)

\* C10: when the command route answers the RPC of Command with status 200
\* and body b, the value sent on the reply channel is b.
C10_RawReplySent ==
    (pcmd.g = "done" /\ pcmd.h # "none" /\ pcmd.resp.status = StatusOK)
    => pcmd.sends = <<pcmd.resp.body>>

\* C11: the payload the command route hands to its engine is exactly the
\* byte sequence the caller passed to HTTPPeer.Command.
C11_PayloadVerbatim ==
    (pcmd.h # "none" /\ hs[pcmd.h].submitted) => hs[pcmd.h].cmd = pcmd.cmd

C13_EndToEnd ==
    (call.pc = "done" /\ call.req.url.host = "srv" /\ call.err # "network")
    => /\ Len(engineLog) = 1
       /\ engineLog[1].kind = call.kind
       /\ engineLog[1].msg = call.msg
       /\ call.resp.status = StatusOK
       /\ call.err = "nil"
       /\ call.reply = engineLog[1].reply

C13_Witness ==
    /\ call.pc = "done"
    /\ call.kind = "ae"
    /\ call.msg = [term |-> 5]
    /\ engineLog = <<[kind |-> "ae", msg |-> [term |-> 5],
                      reply |-> [term |-> 5, flag |-> TRUE]]>>
    /\ call.resp.status = StatusOK
    /\ call.reply = [term |-> 5, flag |-> TRUE]

\* C14: when the engine rejects a command, the handler answers with status
\* 500 and an empty body, and has received nothing from the reply channel.
C14_RejectionGivesEmpty500 ==
    \A h \in Reqs :
        (hs[h].pc = "done" /\ hs[h].submitted /\ ~hs[h].accepted)
        => /\ hs[h].w.status = StatusInternalServerError
           /\ hs[h].w.body = <<>>
           /\ ~hs[h].recvOk

\* C15: every reply channel commandHandler makes has capacity one; the
\* goroutine of HTTPPeer.Command sends at most once on the channel it was
\* given; a commandHandler invocation receives at most once; and a first
\* send on a channel a handler made finds room in it, also after the
\* handler has returned.
C15_SingleSlot ==
    /\ Len(pcmd.sends) <= 1
    /\ \A h \in Reqs :
          /\ hs[h].submitted => hs[h].ch.cap = 1
          /\ hs[h].recvs <= 1
          /\ (hs[h].submitted /\ hs[h].sent = <<>>)
              => Len(hs[h].ch.buf) < hs[h].ch.cap

C15_Witness ==
    /\ pcmd.g = "done"
    /\ Len(pcmd.sends) = 1
    /\ pcmd.h # "none"
    /\ hs[pcmd.h].pc = "done"
    /\ ~hs[pcmd.h].accepted
    /\ hs[pcmd.h].sent = << <<"a">> >>
    /\ hs[pcmd.h].ch.buf = << <<"a">> >>

\* C16: a call of AppendEntries or RequestVote has issued exactly one POST
\* from the moment rpc posts, whatever becomes of that POST, and none when
\* the encoding of the request failed; the goroutine of Command has issued
\* exactly one from the moment its rpc posts.  A failed call has ended with
\* its one error.
C16_NoRetry ==
    /\ call.posts = (IF call.pc = "idle" \/ call.err = "encode" THEN 0 ELSE 1)
    /\ pcmd.posts = (IF pcmd.g \in {"none", "spawned"} THEN 0 ELSE 1)
    /\ call.err # "nil" => call.pc = "done"
    /\ pcmd.err # "nil" => pcmd.g \in {"send", "done"}

C16_Witness ==
    /\ call.pc = "done"
    /\ call.err = "network"
    /\ call.posts = 1
    /\ pcmd.g = "done"
    /\ pcmd.err = "status"
    /\ pcmd.posts = 1

\* C17: when the POST of a consensus call is answered with a status other
\* than 200, rpc ends with the status error that carries that status, and
\* leaves the response target as it was, whatever the target held and
\* whatever the body is.
C17_StatusAbort ==
    (call.pc \in {"resp", "done"} /\ call.resp # NoHTTP
        /\ call.resp.status # StatusOK)
    => /\ \A cur \in EngineReplies :
             RpcResult(call.kind, call.resp, cur)
                 = [err |-> "status", code |-> call.resp.status, val |-> cur]
       /\ (call.pc = "done"
            => (call.err = "status" /\ call.code = call.resp.status))

C17_Witness ==
    /\ call.pc = "done"
    /\ call.resp.status = StatusBadRequest
    /\ call.resp.body = EncodeReply(call.kind, [term |-> 5, flag |-> TRUE])
    /\ call.err = "status"
    /\ call.code = StatusBadRequest
    /\ call.reply = ZeroReply

\* The stored path is empty, every Id() returned the stored id, and the
\* request of each call in progress went to the stored address with the
\* fixed path of its kind.
PeerFixed ==
    /\ peer.url.path = ""
    /\ \A i \in 1..Len(idReads) : idReads[i] = peer.id
    /\ call.req # NoRequest
       => call.req.url = [peer.url EXCEPT !.path = PathOf(call.kind)]
    /\ pcmd.req # NoRequest
       => pcmd.req.url = [peer.url EXCEPT !.path = CommandPath]

\* C18: no step of Id, AppendEntries, RequestVote or Command, in any order
\* or interleaving, changes the id or the address the peer holds; the
\* stored path stays empty and each RPC goes to the fixed path of its kind.
C18_PeerImmutable == [][peer' = peer /\ PeerFixed']_vars

C18_Witness ==
    /\ call.pc = "post"
    /\ call.req.url.path = RequestVotePath
    /\ pcmd.g = "post"
    /\ pcmd.req.url.path = CommandPath
    /\ idReads = <<peer.id, peer.id>>
    /\ peer.url = [host |-> "srv", path |-> "", query |-> ""]

\* C19: for an accepted command the handler has written no response while
\* it waits, and a response it has written came after its one receive, with
\* a value sent or the channel closed by then: an engine that does neither
\* is never answered for.  Once a value was sent or the channel closed, the
\* waiting handler responds in the end.
C19_BlockingWait ==
    /\ [](\A h \in Reqs :
            hs[h].accepted
            => /\ (hs[h].pc = "wait" => ~hs[h].w.wrote)
               /\ (hs[h].w.wrote
                   => /\ hs[h].recvs = 1
                      /\ (hs[h].sent # <<>> \/ hs[h].ch.closed)))
    /\ \A h \in Reqs :
          (hs[h].pc = "wait" /\ (hs[h].sent # <<>> \/ hs[h].ch.closed))
          ~> (hs[h].pc = "done" /\ hs[h].w.wrote)

C19_Witness ==
    /\ hs["r1"].pc = "done"
    /\ hs["r1"].accepted
    /\ hs["r1"].ch.closed
    /\ hs["r1"].w.status = StatusInternalServerError
    /\ hs["r2"].pc = "wait"
    /\ hs["r2"].sent = <<>>
    /\ ~hs["r2"].ch.closed
    /\ ~hs["r2"].w.wrote

\* C20: with several command requests in flight, the channel of each is
\* empty until the engine sends on it, and the body written for a request
\* whose receive yielded a value is the first value sent on that request's
\* own channel, with status 200.
C20_OwnChannel ==
    \A h \in Reqs :
        /\ (hs[h].submitted /\ hs[h].sent = <<>>) => hs[h].ch.buf = <<>>
        /\ (hs[h].pc = "done" /\ hs[h].recvOk)
           => /\ hs[h].sent # <<>>
              /\ hs[h].w.status = StatusOK
              /\ hs[h].w.body = Head(hs[h].sent)

C20_Witness ==
    /\ hs["r1"].pc = "wait"
    /\ hs["r1"].ch.buf = << <<"a">> >>
    /\ hs["r2"].pc = "done"
    /\ hs["r2"].sent = << <<"b">> >>
    /\ hs["r2"].w = [wrote |-> TRUE, status |-> StatusOK, body |-> <<"b">>]

====
